---- MODULE Spec2Model ----
(***************************************************************************)
(* TranscriptionService (src/unnamed/part_017): the client side of the     *)
(* streaming speech-to-text session.  One service instance, driven by the  *)
(* browser's event loop: calls of startRecording() and stopRecording(),    *)
(* getUserMedia() settling, WebSocket open/message/error/close events,     *)
(* ScriptProcessor callbacks and setTimeout() timers.  Every handler runs  *)
(* to completion (one action per handler); an async function is cut at     *)
(* its awaits.                                                             *)
(*                                                                         *)
(* Handles are numbers: 0 is null, i > 0 is the i-th object of its kind    *)
(* (WebSocket, MediaStream, audio graph, startRecording() call).           *)
(* Time is counted in ticks of 100 ms, the greatest common divisor of the  *)
(* four setTimeout() delays of the service.                                *)
(***************************************************************************)
EXTENDS Integers, Sequences, FiniteSets, TLC

\* ---------------------------------------------------------------- bounds
\* startRecording() calls made by the embedding application
MaxStarts == 2
\* events other than startRecording() calls, timers, the opening of a socket,
\* its normal closure and the success of getUserMedia(): stopRecording()
\* calls, backend messages, ScriptProcessor callbacks and failures of the
\* environment (abnormal closures, rejections of getUserMedia(), AudioContexts
\* that cannot be created)
MaxEvents == 2

\* ------------------------------------------------------ program constants
\* const maxRetries = 1
maxRetries == 1
\* setTimeout(() => this.cleanup(), 200)
GraceDelay == 2
\* setTimeout(() => { ... onStatusChange('stopped') }, 100)
StatusDelay == 1
\* setTimeout(() => attemptConnection(), 1000)
RetryDelay == 10
\* await new Promise(resolve => setTimeout(resolve, 1000))
PreCleanupWait == 10
\* SAMPLE_RATE and CHUNK_DURATION_MS
SAMPLE_RATE == 16000
CHUNK_DURATION_MS == 50
\* Math.floor((sampleRate * chunkDurationMs) / 1000)
samplesPerChunk == (SAMPLE_RATE * CHUNK_DURATION_MS) \div 1000

\* Resampled lengths of one 4096-sample ScriptProcessor buffer: at a 96 kHz
\* device (683 samples, less than one frame) and at a 16 kHz device (4096).
InputLens == {683, 4096}

VARIABLES
  svc,          \* the fields of the TranscriptionService instance
  conns,        \* the WebSocket objects ever created
  streams,      \* the MediaStreams ever acquired: TRUE while its tracks are live
  graphs,       \* the audio graphs (AudioContext + ScriptProcessor) ever created
  retryCount,   \* retryCount of each startRecording() call (a closure variable)
  gumPending,   \* getUserMedia() promises not yet settled, per call
  attempts,     \* calls of attemptConnection() so far, per startRecording() call
  timers,       \* pending setTimeout() callbacks
  statuses,     \* what the last handler passed to onStatusChange, in order
  errors,       \* what the last handler passed to onError, in order
  finals,       \* the utterances the last handler passed to onTranscriptionResult
  partials,     \* how many times the last handler called onPartialResult
  finalCount,   \* calls of onTranscriptionResult so far, per utterance
  app,          \* the application's last call, and what it has seen since
  nEvents,      \* events counted against MaxEvents so far
  last,         \* the handler that ran last
  dsp           \* the audio path run on its own (framer, sender, resampler)

vars == <<svc, conns, streams, graphs, retryCount, gumPending, attempts, timers,
          statuses,
          errors, finals, partials, finalCount, app, nEvents, last, dsp>>

\* The utterances a backend result may belong to.
Utterances == {1}

\* The program state a handler reads and writes, as one record, with the
\* calls it makes to the application's callbacks (none yet).
World ==
  [svc |-> svc, conns |-> conns, streams |-> streams, graphs |-> graphs,
   retryCount |-> retryCount, gumPending |-> gumPending, attempts |-> attempts,
   timers |-> timers,
   statuses |-> <<>>, errors |-> <<>>, finals |-> <<>>, partials |-> 0]

Emitted(w, status) == \E i \in 1..Len(w.statuses) : w.statuses[i] = status

Count(seq, x) == Cardinality({i \in 1..Len(seq) : seq[i] = x})

Commit(w) ==
  /\ svc' = w.svc
  /\ conns' = w.conns
  /\ streams' = w.streams
  /\ graphs' = w.graphs
  /\ retryCount' = w.retryCount
  /\ gumPending' = w.gumPending
  /\ attempts' = w.attempts
  /\ timers' = w.timers
  /\ statuses' = w.statuses
  /\ errors' = w.errors
  /\ finals' = w.finals
  /\ partials' = w.partials
  /\ finalCount' = [u \in Utterances |-> finalCount[u] + Count(w.finals, u)]

\* ------------------------------------------------------------- callbacks
onStatusChange(w, status) == [w EXCEPT !.statuses = Append(@, status)]

onError(w, error) == [w EXCEPT !.errors = Append(@, error)]

onTranscriptionResult(w, result) == [w EXCEPT !.finals = Append(@, result.utt)]

onPartialResult(w, result) == [w EXCEPT !.partials = @ + 1]

\* ------------------------------------------------------- browser objects
\* setTimeout(callback, delay): kind names the callback, call its closure.
setTimeout(w, kind, call, delay) ==
  [w EXCEPT !.timers = Append(@, [kind |-> kind, call |-> call, rem |-> delay])]

\* WebSocket.send() behind a readyState === OPEN test.
wsSend(w, c, tag) ==
  IF c # 0 /\ w.conns[c].st = "OPEN"
  THEN [w EXCEPT !.conns[c].traffic = Append(@, tag)]
  ELSE w

\* WebSocket.close(1000, ...): starts the closing handshake of an open or
\* connecting socket, and does nothing to a closing or closed one.
wsClose(w, c) ==
  IF w.conns[c].st \in {"CONNECTING", "OPEN"}
  THEN [w EXCEPT !.conns[c].st = "CLOSING"]
  ELSE w

\* ------------------------------------------------------------- cleanup()
\* cleanup that closes the socket but leaves the audio path as it is.
cleanup_KeepsMicrophone(w) ==
  LET s  == w.svc
      w1 == [w EXCEPT !.svc.shouldReconnect = FALSE, !.svc.isRecording = FALSE]
      w5 == IF s.websocket # 0
            THEN [wsClose(wsSend(w1, s.websocket, "end_session"), s.websocket)
                    EXCEPT !.svc.websocket = 0]
            ELSE w1
  IN  setTimeout([w5 EXCEPT !.svc.sessionId = 0], "status", 0, StatusDelay)

cleanup(w) ==
  LET s == w.svc
      w1 == [w EXCEPT !.svc.shouldReconnect = FALSE, !.svc.isRecording = FALSE]
      w2 == IF s.processor # 0
            THEN [w1 EXCEPT !.graphs[s.processor].connected = FALSE,
                            !.svc.processor = 0]
            ELSE w1
      w3 == IF s.audioContext # 0
            THEN [w2 EXCEPT !.graphs[s.audioContext].open = FALSE,
                            !.svc.audioContext = 0]
            ELSE w2
      w4 == IF s.audioStream # 0
            THEN [w3 EXCEPT !.streams[s.audioStream] = FALSE,
                            !.svc.audioStream = 0]
            ELSE w3
      w5 == IF s.websocket # 0
            THEN [wsClose(wsSend(w4, s.websocket, "end_session"), s.websocket)
                    EXCEPT !.svc.websocket = 0]
            ELSE w4
      w6 == [w5 EXCEPT !.svc.sessionId = 0]
  IN  setTimeout(w6, "status", 0, StatusDelay)

\* The callback cleanup() schedules: 'stopped' unless a session is active.
statusTimeout(w) ==
  IF ~w.svc.isRecording /\ w.svc.websocket = 0
  THEN onStatusChange(w, "stopped")
  ELSE w

\* ------------------------------------------------------- stopRecording()
stopRecording(w) ==
  LET w1 == [w EXCEPT !.svc.shouldReconnect = FALSE]
      w2 == IF w1.svc.isRecording
            THEN onStatusChange([w1 EXCEPT !.svc.isRecording = FALSE], "stopping")
            ELSE w1
      c  == w.svc.websocket
  IN  IF c # 0 /\ w.conns[c].st = "OPEN"
      THEN setTimeout(wsSend(w2, c, "end_session"), "grace", 0, GraceDelay)
      ELSE cleanup(w2)

\* ------------------------------------------------- setupAudioContext()
\* ctxOk: whether the browser could create the AudioContext (the try block
\* throws otherwise, before any field is assigned).
\* The first definition marks capture active in the catch block as well.
setupAudioContext_RecordsAnyway(w, ctxOk) ==
  IF ctxOk
  THEN LET g  == Len(w.graphs) + 1
           w1 == [w EXCEPT !.graphs = Append(@, [connected |-> TRUE, open |-> TRUE,
                                                 buf |-> 0]),
                           !.svc.audioContext = g,
                           !.svc.processor = g]
       IN  onStatusChange([w1 EXCEPT !.svc.isRecording = TRUE], "recording")
  ELSE onError([w EXCEPT !.svc.isRecording = TRUE],
               "Failed to set up audio processing")

setupAudioContext(w, ctxOk) ==
  IF ctxOk
  THEN LET g  == Len(w.graphs) + 1
           w1 == [w EXCEPT !.graphs = Append(@, [connected |-> TRUE, open |-> TRUE,
                                                 buf |-> 0]),
                           !.svc.audioContext = g,
                           !.svc.processor = g]
       IN  onStatusChange([w1 EXCEPT !.svc.isRecording = TRUE], "recording")
  ELSE onError(w, "Failed to set up audio processing")

setupMediaRecorder(w, ctxOk) ==
  IF w.svc.audioStream = 0 THEN w ELSE setupAudioContext(w, ctxOk)

\* ------------------------------------------------- attemptConnection()
\* Up to its await: getUserMedia() is called and the function suspends.
attemptConnection(w, k) ==
  [w EXCEPT !.gumPending[k] = @ + 1, !.attempts[k] = @ + 1]

\* attemptCatch without the retry: every failure is reported at once.
attemptCatch_NoRetry(w, k) == onError(w, "Failed to start recording")

\* The catch block of attemptConnection.
attemptCatch(w, k) ==
  IF w.retryCount[k] < maxRetries
  THEN setTimeout([w EXCEPT !.retryCount[k] = @ + 1], "attempt", k, RetryDelay)
  ELSE onError(w, "Failed to start recording")

\* After the await, getUserMedia() having resolved: the stream is stored,
\* the WebSocket created and its handlers installed, the audio graph set up.
attemptAcquired(w, k, ctxOk) ==
  LET a  == Len(w.streams) + 1
      c  == Len(w.conns) + 1
      w1 == [w EXCEPT !.streams = Append(@, TRUE),
                      !.svc.audioStream = a,
                      !.conns = Append(@, [st |-> "CONNECTING", call |-> k,
                                           est |-> FALSE, traffic |-> <<>>]),
                      !.svc.websocket = c]
  IN  setupMediaRecorder(w1, ctxOk)

\* --------------------------------------------------- WebSocket handlers
\* onopen: the config goes to this.websocket, whichever socket that is now;
\* send() on a socket that is still connecting throws out of the handler.
onopen(w, c) == wsSend(w, w.svc.websocket, "config")

\* onerror that retries whatever the count.
onerror_RetryUnbounded(w, c) ==
  LET k == w.conns[c].call
  IN  IF w.svc.shouldReconnect /\ w.svc.isRecording
      THEN setTimeout([w EXCEPT !.retryCount[k] = @ + 1], "attempt", k, RetryDelay)
      ELSE onError(w, "Connection error occurred")

onerror(w, c) ==
  LET k == w.conns[c].call
  IN  IF w.svc.shouldReconnect /\ w.svc.isRecording /\ w.retryCount[k] < maxRetries
      THEN setTimeout([w EXCEPT !.retryCount[k] = @ + 1], "attempt", k, RetryDelay)
      ELSE onError(w, "Connection error occurred")

\* onclose whose retry branch forgets to count the retry.
onclose_RetryNotCounted(w, c, code) ==
  LET k == w.conns[c].call
  IN  IF code = 1000
      THEN cleanup([w EXCEPT !.svc.shouldReconnect = FALSE])
      ELSE IF w.svc.shouldReconnect /\ w.svc.isRecording
              /\ w.retryCount[k] < maxRetries
           THEN setTimeout(w, "attempt", k, RetryDelay)
           ELSE cleanup(w)

\* onclose that makes no difference between the closure codes.
onclose_NormalRetries(w, c, code) ==
  LET k == w.conns[c].call
  IN  IF w.svc.shouldReconnect /\ w.svc.isRecording
         /\ w.retryCount[k] < maxRetries
      THEN setTimeout([w EXCEPT !.retryCount[k] = @ + 1], "attempt", k,
                      RetryDelay)
      ELSE cleanup(w)

onclose(w, c, code) ==
  LET k == w.conns[c].call
  IN  IF code = 1000
      THEN cleanup([w EXCEPT !.svc.shouldReconnect = FALSE])
      ELSE IF w.svc.shouldReconnect /\ w.svc.isRecording
              /\ w.retryCount[k] < maxRetries
           THEN setTimeout([w EXCEPT !.retryCount[k] = @ + 1], "attempt", k,
                           RetryDelay)
           ELSE cleanup(w)

\* --------------------------------------------- handleWebSocketMessage()
\* dispatchResult that treats every result as final.
dispatchResult_PartialAsFinal(w, result) == onTranscriptionResult(w, result)

\* case 'transcription_result'
dispatchResult(w, result) ==
  IF result.is_partial
  THEN onPartialResult(w, result)
  ELSE onTranscriptionResult(w, result)

\* case 'session_ended'
sessionEnded(w) ==
  onStatusChange([w EXCEPT !.svc.shouldReconnect = FALSE,
                           !.svc.isRecording = FALSE], "stopped")

\* case 'error': data.error_message || 'Unknown transcription error'
backendError(w, data) ==
  onError(w, IF data.error_message # "" THEN data.error_message
             ELSE "Unknown transcription error")

handleWebSocketMessage(w, data) ==
  CASE data.type = "session_started" ->
         [w EXCEPT !.svc.sessionId = data.session_id]
    [] data.type = "transcription_result" -> dispatchResult(w, data)
    [] data.type = "session_ended" -> sessionEnded(w)
    [] data.type = "error" -> backendError(w, data)
    [] OTHER -> w

\* onmessage.  The traffic of the connection also records the arrival of
\* session_started, the backend's acknowledgement of the session.
onmessage(w, c, data) ==
  LET w1 == IF data.type = "session_started"
            THEN [w EXCEPT !.conns[c].traffic = Append(@, "<session_started")]
            ELSE w
  IN  handleWebSocketMessage(w1, data)

\* ------------------------------------------------------ audio capture
\* sendPCMAudioChunk of one frame of samplesPerChunk samples (1600 bytes,
\* below MAX_CHUNK_SIZE): one audio_chunk message if the socket is open.
sendPCMAudioChunk(w) == wsSend(w, w.svc.websocket, "audio_chunk")

\* onaudioprocess of graph g with n resampled samples.
onaudioprocess(w, g, n) ==
  IF ~w.svc.isRecording
  THEN w
  ELSE LET total == w.graphs[g].buf + n
       IN  IF total >= samplesPerChunk
           THEN [sendPCMAudioChunk(w) EXCEPT
                   !.graphs[g].buf = total - samplesPerChunk]
           ELSE [w EXCEPT !.graphs[g].buf = total]

\* ------------------------------------------------------------ messages
NoMsg ==
  [type |-> "none", is_partial |-> FALSE, utt |-> 0, session_id |-> 0,
   error_message |-> ""]

Messages ==
  {[NoMsg EXCEPT !.type = "session_started", !.session_id = 1]}
  \cup {[NoMsg EXCEPT !.type = "transcription_result", !.is_partial = p, !.utt = 1]
          : p \in BOOLEAN}
  \cup {[NoMsg EXCEPT !.type = "session_ended"]}
  \cup {[NoMsg EXCEPT !.type = "error", !.error_message = e]
          : e \in {"unsupported language", ""}}

Did(op, id, msg, code, err) ==
  last' = [op |-> op, id |-> id, msg |-> msg, code |-> code, err |-> err]

\* The status the application was told last: the last of sts, or prev when
\* the handler emitted none.
LastStatus(sts, prev) == IF sts = <<>> THEN prev ELSE sts[Len(sts)]

\* A handler other than a call of the application ran, leaving w: the
\* application notes whether it was told 'stopped'.
Run(w) ==
  /\ Commit(w)
  /\ app' = [app EXCEPT !.stoppedSeen = @ \/ Emitted(w, "stopped"),
                        !.status = LastStatus(w.statuses, @)]

\* --------------------------------------------------------------- Init
\* The audio path is not run on its own.
NoDsp == [unit |-> "none"]

\* The service as its constructor and field initialisers leave it.
Constructed ==
  /\ svc = [websocket |-> 0, audioStream |-> 0, audioContext |-> 0,
            processor |-> 0, isRecording |-> FALSE, sessionId |-> 0,
            shouldReconnect |-> FALSE]
  /\ conns = <<>>
  /\ streams = <<>>
  /\ graphs = <<>>
  /\ retryCount = <<>>
  /\ gumPending = <<>>
  /\ attempts = <<>>
  /\ timers = <<>>
  /\ statuses = <<>>
  /\ errors = <<>>
  /\ finals = <<>>
  /\ partials = 0
  /\ finalCount = [u \in Utterances |-> 0]
  /\ app = [call |-> "none", fromRecording |-> FALSE, stoppedSeen |-> FALSE,
            status |-> "none", tearingDown |-> FALSE]
  /\ nEvents = 0
  /\ last = [op |-> "init", id |-> 0, msg |-> NoMsg, code |-> 0, err |-> FALSE]

Init ==
  /\ Constructed
  /\ dsp = NoDsp

\* ------------------------------------------------------------- actions
\* A session is being torn down: the grace timer of stopRecording() is
\* pending, or a socket the service closed has not finished closing.
TearingDown ==
  \/ \E i \in 1..Len(timers) : timers[i].kind = "grace"
  \/ \E c \in 1..Len(conns) : conns[c].st = "CLOSING"

\* startRecording(config), up to its first await.
StartRecording ==
  /\ Len(retryCount) < MaxStarts
  /\ LET k  == Len(retryCount) + 1
         w0 == [World EXCEPT !.retryCount = Append(@, 0),
                             !.gumPending = Append(@, 0),
                             !.attempts = Append(@, 0)]
     IN  IF svc.isRecording \/ svc.websocket # 0 \/ svc.audioStream # 0
         THEN Commit(setTimeout(stopRecording(w0), "resume", k, PreCleanupWait))
         ELSE Commit(attemptConnection([w0 EXCEPT !.svc.shouldReconnect = TRUE], k))
  /\ app' = [call |-> "start", fromRecording |-> FALSE, stoppedSeen |-> FALSE,
             status |-> LastStatus(statuses', app.status),
             tearingDown |-> TearingDown]
  /\ UNCHANGED dsp
  /\ Did("startRecording", Len(retryCount) + 1, NoMsg, 0, FALSE)
  /\ UNCHANGED nEvents

\* The application calls stopRecording().
CallStop ==
  /\ Commit(stopRecording(World))
  /\ app' = [call |-> "stop",
             fromRecording |-> /\ svc.isRecording
                               /\ svc.websocket # 0
                               /\ conns[svc.websocket].st = "OPEN",
             stoppedSeen |-> FALSE,
             status |-> LastStatus(statuses', app.status),
             tearingDown |-> FALSE]
  /\ Did("stopRecording", 0, NoMsg, 0, FALSE)

\* stopRecording() called by the application.
StopRecording ==
  /\ nEvents < MaxEvents
  /\ CallStop
  /\ nEvents' = nEvents + 1
  /\ UNCHANGED dsp

Without(s, i) == SubSeq(s, 1, i - 1) \o SubSeq(s, i + 1, Len(s))

\* 100 ms pass: possible only when no pending timer is due.
Tick ==
  /\ timers # <<>>
  /\ \A i \in 1..Len(timers) : timers[i].rem > 0
  /\ Run([World EXCEPT
               !.timers = [i \in 1..Len(timers) |-> [timers[i] EXCEPT !.rem = @ - 1]]])
  /\ UNCHANGED dsp
  /\ Did("tick", 0, NoMsg, 0, FALSE)
  /\ UNCHANGED nEvents

Due(i, kind) ==
  /\ timers[i].kind = kind
  /\ timers[i].rem = 0

\* The grace timer of stopRecording() fires.
GraceTimeout ==
  \E i \in 1..Len(timers) :
    /\ Due(i, "grace")
    /\ Run(cleanup([World EXCEPT !.timers = Without(@, i)]))
    /\ UNCHANGED dsp
    /\ Did("graceTimeout", 0, NoMsg, 0, FALSE)
    /\ UNCHANGED nEvents

\* The delayed status change of cleanup() fires.
StatusTimeout ==
  \E i \in 1..Len(timers) :
    /\ Due(i, "status")
    /\ Run(statusTimeout([World EXCEPT !.timers = Without(@, i)]))
    /\ UNCHANGED dsp
    /\ Did("statusTimeout", 0, NoMsg, 0, FALSE)
    /\ UNCHANGED nEvents

\* The backoff of a retry ends: attemptConnection() runs again.
RetryTimeout ==
  \E i \in 1..Len(timers) :
    /\ Due(i, "attempt")
    /\ Run(attemptConnection([World EXCEPT !.timers = Without(@, i)],
                                timers[i].call))
    /\ UNCHANGED dsp
    /\ Did("retryTimeout", timers[i].call, NoMsg, 0, FALSE)
    /\ UNCHANGED nEvents

\* startRecording() resumes after waiting for the previous session's cleanup.
ResumeStart ==
  \E i \in 1..Len(timers) :
    /\ Due(i, "resume")
    /\ Run(attemptConnection([World EXCEPT !.timers = Without(@, i),
                                              !.svc.shouldReconnect = TRUE],
                                timers[i].call))
    /\ UNCHANGED dsp
    /\ Did("resumeStart", timers[i].call, NoMsg, 0, FALSE)
    /\ UNCHANGED nEvents

\* getUserMedia() of call k resolves: attemptConnection continues.
GetUserMediaResolved ==
  \E k \in 1..Len(gumPending), ctxOk \in BOOLEAN :
    /\ gumPending[k] > 0
    /\ ctxOk \/ nEvents < MaxEvents
    /\ Run(attemptAcquired([World EXCEPT !.gumPending[k] = @ - 1], k, ctxOk))
    /\ UNCHANGED dsp
    /\ Did("getUserMediaResolved", k, NoMsg, 0, ~ctxOk)
    /\ nEvents' = IF ctxOk THEN nEvents ELSE nEvents + 1

\* getUserMedia() of call k rejects: the catch block runs.
GetUserMediaRejected ==
  \E k \in 1..Len(gumPending) :
    /\ gumPending[k] > 0
    /\ nEvents < MaxEvents
    /\ Run(attemptCatch([World EXCEPT !.gumPending[k] = @ - 1], k))
    /\ UNCHANGED dsp
    /\ Did("getUserMediaRejected", k, NoMsg, 0, TRUE)
    /\ nEvents' = nEvents + 1

\* The connection of socket c is established.
WsOpen ==
  \E c \in 1..Len(conns) :
    /\ conns[c].st = "CONNECTING"
    /\ Run(onopen([World EXCEPT !.conns[c].st = "OPEN", !.conns[c].est = TRUE], c))
    /\ UNCHANGED dsp
    /\ Did("onopen", c, NoMsg, 0, FALSE)
    /\ UNCHANGED nEvents

\* A backend message arrives on socket c.
WsMessage ==
  \E c \in 1..Len(conns), data \in Messages :
    /\ nEvents < MaxEvents
    /\ conns[c].st \in {"OPEN", "CLOSING"}
    /\ conns[c].est
    /\ Run(onmessage(World, c, data))
    /\ nEvents' = nEvents + 1
    /\ UNCHANGED dsp
    /\ Did("onmessage", c, data, 0, FALSE)

\* Socket c is closed with the normal-closure code: the close event alone.
WsCloseNormal ==
  \E c \in 1..Len(conns) :
    /\ conns[c].st \in {"OPEN", "CLOSING"}
    /\ conns[c].est
    /\ Run(onclose([World EXCEPT !.conns[c].st = "CLOSED"], c, 1000))
    /\ UNCHANGED dsp
    /\ Did("onclose", c, NoMsg, 1000, FALSE)
    /\ UNCHANGED nEvents

\* Socket c is closed abnormally (code 1006): an error event and then the
\* close event, in one task of the event loop, or, once the connection was
\* established, the close event alone.
WsCloseAbnormal ==
  \E c \in 1..Len(conns), err \in BOOLEAN :
    /\ conns[c].st # "CLOSED"
    /\ err \/ conns[c].est
    /\ nEvents < MaxEvents
    /\ LET w0 == [World EXCEPT !.conns[c].st = "CLOSED"]
       IN  Run(onclose(IF err THEN onerror(w0, c) ELSE w0, c, 1006))
    /\ UNCHANGED dsp
    /\ Did("onclose", c, NoMsg, 1006, err)
    /\ nEvents' = nEvents + 1

\* The service closed socket c before its connection was established: the
\* browser fails the connection, with an error event and then the close event.
WsCloseAborted ==
  \E c \in 1..Len(conns) :
    /\ conns[c].st = "CLOSING"
    /\ ~conns[c].est
    /\ Run(onclose(onerror([World EXCEPT !.conns[c].st = "CLOSED"], c), c, 1006))
    /\ UNCHANGED dsp
    /\ Did("onclose", c, NoMsg, 1006, TRUE)
    /\ UNCHANGED nEvents

\* The ScriptProcessor of a running audio graph delivers a buffer.
AudioProcess ==
  \E g \in 1..Len(graphs), n \in InputLens :
    /\ nEvents < MaxEvents
    /\ graphs[g].connected
    /\ graphs[g].open
    /\ Run(onaudioprocess(World, g, n))
    /\ nEvents' = nEvents + 1
    /\ UNCHANGED dsp
    /\ Did("onaudioprocess", g, NoMsg, n, FALSE)

Next ==
  \/ StartRecording
  \/ StopRecording
  \/ Tick
  \/ GraceTimeout
  \/ StatusTimeout
  \/ RetryTimeout
  \/ ResumeStart
  \/ GetUserMediaResolved
  \/ GetUserMediaRejected
  \/ WsOpen
  \/ WsMessage
  \/ WsCloseNormal
  \/ WsCloseAbnormal
  \/ WsCloseAborted
  \/ AudioProcess

Spec == Init /\ [][Next]_vars

\* ---------------------------------------------- the audio path alone
\* The buffer size of the ScriptProcessor: samples per onaudioprocess.
BufferSize == 4096

BYTES_PER_SAMPLE == 2

\* The sample rates an AudioContext may run at.
SampleRates == {8000, 16000, 22050, 32000, 44100, 48000, 96000, 192000}

\* Math.round(a / b) for a >= 0, b > 0: the nearest integer, a tie upwards.
MathRound(a, b) == (2 * a + b) \div (2 * b)

\* resampleTo16kHz: the length of the output for n input samples at
\* inputSampleRate.  ratio = inputSampleRate / SAMPLE_RATE, so n / ratio is
\* n * SAMPLE_RATE / inputSampleRate.
outputLength(n, inputSampleRate) == MathRound(n * SAMPLE_RATE, inputSampleRate)

\* resampleTo16kHz that interpolates every output sample.
resampleTo16kHz_NoGuard(n, inputSampleRate) ==
  [same |-> FALSE,
   output |->
     [j \in 1..outputLength(n, inputSampleRate) |->
        [lower |-> ((j - 1) * inputSampleRate) \div SAMPLE_RATE,
         upper |-> ((j - 1) * inputSampleRate + SAMPLE_RATE - 1) \div SAMPLE_RATE,
         num   |-> ((j - 1) * inputSampleRate) % SAMPLE_RATE]]]

\* resampleTo16kHz(inputData, inputSampleRate), the input given by its length
\* n.  Each output sample is described by the input indices (from 0) it is
\* read from: lower and upper with the weight num / SAMPLE_RATE on upper, or
\* lower alone.  same: the input array itself is returned.
resampleTo16kHz(n, inputSampleRate) ==
  IF inputSampleRate = SAMPLE_RATE
  THEN [same |-> TRUE,
        output |-> [j \in 1..n |-> [lower |-> j - 1, upper |-> j - 1, num |-> 0]]]
  ELSE [same |-> FALSE,
        output |->
          [j \in 1..outputLength(n, inputSampleRate) |->
             LET i     == j - 1
                 lower == (i * inputSampleRate) \div SAMPLE_RATE
                 upper == (i * inputSampleRate + SAMPLE_RATE - 1) \div SAMPLE_RATE
                 num   == (i * inputSampleRate) % SAMPLE_RATE
             IN  IF upper >= n
                 THEN [lower |-> lower, upper |-> lower, num |-> 0]
                 ELSE [lower |-> lower, upper |-> upper, num |-> num]]]

\* The chunks of a buffer list, joined (combinedBuffer).
RECURSIVE combined(_)
combined(chunks) ==
  IF chunks = <<>> THEN <<>> ELSE Head(chunks) \o combined(Tail(chunks))

\* framer that keeps nothing once a frame was cut.
framer_DropsRemainder(audioBuffer, resampledData) ==
  LET combinedBuffer == combined(Append(audioBuffer, resampledData))
  IN  IF Len(combinedBuffer) >= samplesPerChunk
      THEN [audioBuffer |-> <<>>,
            sent        |-> <<SubSeq(combinedBuffer, 1, samplesPerChunk)>>]
      ELSE [audioBuffer |-> Append(audioBuffer, resampledData), sent |-> <<>>]

\* The body of onaudioprocess after the resampling: resampledData is pushed
\* on audioBuffer; with samplesPerChunk samples or more, the first
\* samplesPerChunk are handed to sendPCMAudioChunk and the rest is kept.
framer(audioBuffer, resampledData) ==
  LET pushed         == Append(audioBuffer, resampledData)
      combinedBuffer == combined(pushed)
      totalSamples   == Len(combinedBuffer)
      chunkToSend    == SubSeq(combinedBuffer, 1, samplesPerChunk)
      remainder      == SubSeq(combinedBuffer, samplesPerChunk + 1, totalSamples)
  IN  IF totalSamples >= samplesPerChunk
      THEN [audioBuffer |-> IF Len(remainder) > 0 THEN <<remainder>> ELSE <<>>,
            sent        |-> <<chunkToSend>>]
      ELSE [audioBuffer |-> pushed, sent |-> <<>>]

\* The service itself is left as constructed.
Others ==
  UNCHANGED <<svc, conns, streams, graphs, retryCount, gumPending, attempts,
              timers, statuses, errors, finals, partials, finalCount, app, nEvents,
              last>>

\* How many onaudioprocess callbacks one capture is followed for.
MaxCalls == 12

\* A capture starts: the AudioContext runs at one of the sample rates; the
\* resampled samples are numbered 1, 2, ... in the order they are produced.
FramerInit ==
  /\ Constructed
  /\ \E rate \in SampleRates :
       dsp = [unit |-> "framer", rate |-> rate, audioBuffer |-> <<>>,
              frames |-> <<>>, fed |-> 0, calls |-> 0]

\* One onaudioprocess callback while recording.
FramerCall ==
  /\ dsp.calls < MaxCalls
  /\ LET n             == Len(resampleTo16kHz(BufferSize, dsp.rate).output)
         resampledData == [i \in 1..n |-> dsp.fed + i]
         r             == framer(dsp.audioBuffer, resampledData)
     IN  dsp' = [dsp EXCEPT !.audioBuffer = r.audioBuffer,
                            !.frames = @ \o r.sent,
                            !.fed = @ + n,
                            !.calls = @ + 1]
  /\ Others

FramerNext == FramerCall

FramerSpec == FramerInit /\ [][FramerNext]_vars

\* --------------------------------------------------- resampleTo16kHz
\* The longest input the resampler is run on, besides a whole buffer.
MaxSamples == 12

\* An input of n samples at one of the sample rates is about to be resampled.
ResamplerInit ==
  /\ Constructed
  /\ \E rate \in SampleRates, n \in (0..MaxSamples) \cup {BufferSize} :
       dsp = [unit |-> "resampler", rate |-> rate, n |-> n, done |-> FALSE,
              same |-> FALSE, output |-> <<>>]

ResamplerCall ==
  /\ ~dsp.done
  /\ LET r == resampleTo16kHz(dsp.n, dsp.rate)
     IN  dsp' = [dsp EXCEPT !.done = TRUE, !.same = r.same, !.output = r.output]
  /\ Others

ResamplerNext == ResamplerCall

ResamplerSpec == ResamplerInit /\ [][ResamplerNext]_vars

\* ------------------------------------------------ sendPCMAudioChunk
MAX_CHUNK_SIZE == 32768

\* How many calls of sendPCMAudioChunk are followed.
MaxFrames == 2

\* The sample counts of the buffers passed to convertToPCM16 and on to
\* sendPCMAudioChunk: the frame of the framer, and buffers at, just above and
\* well above the limit.
PcmSamples == {samplesPerChunk, 16384, 16385, 32768, 40000}

\* convertToPCM16: the byte length of the PCM data of n samples.
pcmLength(n) == n * BYTES_PER_SAMPLE

\* numberOfChunks that rounds down.
numberOfChunks_Floor(length) == length \div MAX_CHUNK_SIZE

\* Math.ceil(pcmData.length / MAX_CHUNK_SIZE)
numberOfChunks(length) == (length + MAX_CHUNK_SIZE - 1) \div MAX_CHUNK_SIZE

\* chunkEnd that takes the rest of the buffer.
chunkEnd_Rest(start, length) == length

\* Math.min(start + MAX_CHUNK_SIZE, pcmData.length)
chunkEnd(start, length) ==
  IF start + MAX_CHUNK_SIZE < length THEN start + MAX_CHUNK_SIZE ELSE length

\* websocket.send of an audio_chunk with the bytes [start, end) of the PCM
\* data of call c.
sendAudio(d, c, start, end) ==
  [d EXCEPT !.sent = Append(@, [frame |-> c, start |-> start, end |-> end])]

\* sendPCMAudioChunk of call c, run from where it stands (its start, or the
\* await of the loop at index i) to its next await or to its end.  With the
\* socket not open no iteration sends or awaits, so the loop runs out.
sendPCMRun(d, c) ==
  LET length == d.calls[c].length
      i      == d.calls[c].i
      n      == numberOfChunks(length)
      start  == i * MAX_CHUNK_SIZE
      end    == chunkEnd(start, length)
  IN  IF length > MAX_CHUNK_SIZE
      THEN IF d.socket = "OPEN" /\ i < n
           THEN LET d1 == sendAudio(d, c, start, end)
                IN  IF i < n - 1
                    THEN [d1 EXCEPT !.calls[c].i = i + 1, !.calls[c].pc = "await"]
                    ELSE [d1 EXCEPT !.calls[c].i = n, !.calls[c].pc = "done"]
           ELSE [d EXCEPT !.calls[c].i = n, !.calls[c].pc = "done"]
      ELSE IF d.socket = "OPEN"
           THEN [sendAudio(d, c, 0, length) EXCEPT !.calls[c].pc = "done"]
           ELSE [d EXCEPT !.calls[c].pc = "done"]

\* The socket is open, nothing was passed to sendPCMAudioChunk yet.
SenderInit ==
  /\ Constructed
  /\ dsp = [unit |-> "sender", socket |-> "OPEN", calls |-> <<>>, sent |-> <<>>]

\* sendPCMAudioChunk(pcmData) is called (and not awaited) with the PCM data
\* of n samples.
SenderCall ==
  \E n \in PcmSamples :
    /\ Len(dsp.calls) < MaxFrames
    /\ LET c == Len(dsp.calls) + 1
           d == [dsp EXCEPT !.calls = Append(@, [length |-> pcmLength(n), i |-> 0,
                                                 pc |-> "run"])]
       IN  dsp' = sendPCMRun(d, c)
    /\ Others

\* The 1 ms timer a call awaits between two sub-chunks fires.
SenderResume ==
  \E c \in 1..Len(dsp.calls) :
    /\ dsp.calls[c].pc = "await"
    /\ dsp' = sendPCMRun(dsp, c)
    /\ Others

\* The socket leaves the OPEN state.
SenderSocketCloses ==
  /\ dsp.socket = "OPEN"
  /\ dsp' = [dsp EXCEPT !.socket = "CLOSED"]
  /\ Others

SenderNext ==
  \/ SenderCall
  \/ SenderResume
  \/ SenderSocketCloses

SenderSpec == SenderInit /\ [][SenderNext]_vars

\* ------------------------------------------------- one whole session
\* The run of one session against a backend that follows the protocol:
\* start, session_started, ScenarioChunks audio chunks, a partial and a final
\* result, stop, session_ended.  dsp.step is the last event of that script;
\* between the events the browser resolves getUserMedia, opens the socket,
\* runs the timers and completes the close the service asked for.
ScenarioChunks == 10

ScenarioInit ==
  /\ Constructed
  /\ dsp = [unit |-> "scenario", step |-> "idle"]

\* the audio_chunk messages sent on socket c
ChunksSent(c) ==
  Cardinality({i \in 1..Len(conns[c].traffic) : conns[c].traffic[i] = "audio_chunk"})

Step(from, to) ==
  /\ dsp.unit = "scenario"
  /\ dsp.step = from
  /\ dsp' = [dsp EXCEPT !.step = to]

During(step) ==
  /\ dsp.unit = "scenario"
  /\ dsp.step = step

\* startRecording({language_code: 'vi-VN', sample_rate: 16000})
ScnStart ==
  /\ During("idle")
  /\ Len(retryCount) = 0
  /\ StartRecording

ScnAcquired ==
  /\ dsp.unit = "scenario"
  /\ GetUserMediaResolved
  /\ ~last'.err

ScnOpen ==
  /\ dsp.unit = "scenario"
  /\ WsOpen

\* A backend message of the script arrives on the socket of the session.
ScnMessage(from, to, data) ==
  /\ Step(from, to)
  /\ svc.websocket # 0
  /\ conns[svc.websocket].st = "OPEN"
  /\ Run(onmessage(World, svc.websocket, data))
  /\ Did("onmessage", svc.websocket, data, 0, FALSE)
  /\ UNCHANGED nEvents

ScnSessionStarted ==
  ScnMessage("idle", "acked",
             [NoMsg EXCEPT !.type = "session_started", !.session_id = 1])

\* The microphone delivers buffers until the client has sent its chunks.
ScnAudio ==
  \E n \in InputLens :
    /\ During("acked")
    /\ svc.processor # 0
    /\ svc.websocket # 0
    /\ ChunksSent(svc.websocket) < ScenarioChunks
    /\ Run(onaudioprocess(World, svc.processor, n))
    /\ Did("onaudioprocess", svc.processor, NoMsg, n, FALSE)
    /\ UNCHANGED <<nEvents, dsp>>

ScnPartial ==
  /\ During("acked")
  /\ svc.websocket # 0
  /\ ChunksSent(svc.websocket) = ScenarioChunks
  /\ ScnMessage("acked", "partial",
                [NoMsg EXCEPT !.type = "transcription_result",
                              !.is_partial = TRUE, !.utt = 1])

ScnFinal ==
  ScnMessage("partial", "final",
             [NoMsg EXCEPT !.type = "transcription_result", !.utt = 1])

ScnStop ==
  /\ Step("final", "stop")
  /\ CallStop
  /\ UNCHANGED nEvents

\* session_ended, the backend's answer to end_session, arrives on the socket
\* of the session, before or after the service has begun to close it.
ScnSessionEnded ==
  \E c \in 1..Len(conns) :
    /\ Step("stop", "ended")
    /\ conns[c].st \in {"OPEN", "CLOSING"}
    /\ Run(onmessage(World, c, [NoMsg EXCEPT !.type = "session_ended"]))
    /\ Did("onmessage", c, [NoMsg EXCEPT !.type = "session_ended"], 0, FALSE)
    /\ UNCHANGED nEvents

\* The close the service asked for completes.
ScnClosed ==
  /\ dsp.unit = "scenario"
  /\ \E c \in 1..Len(conns) : conns[c].st = "CLOSING"
  /\ WsCloseNormal
  /\ conns[last'.id].st = "CLOSING"

ScnTick == dsp.unit = "scenario" /\ Tick

ScnGraceTimeout == dsp.unit = "scenario" /\ GraceTimeout

ScnStatusTimeout == dsp.unit = "scenario" /\ StatusTimeout

ScenarioNext ==
  \/ ScnStart
  \/ ScnAcquired
  \/ ScnOpen
  \/ ScnSessionStarted
  \/ ScnAudio
  \/ ScnPartial
  \/ ScnFinal
  \/ ScnStop
  \/ ScnSessionEnded
  \/ ScnClosed
  \/ ScnTick
  \/ ScnGraceTimeout
  \/ ScnStatusTimeout

ScenarioSpec == ScenarioInit /\ [][ScenarioNext]_vars

\* ------------------------------------------------------------- claims
StatusEmitted(sts, status) == \E i \in 1..Len(sts) : sts[i] = status

ErrorReported(errs, error) == \E i \in 1..Len(errs) : errs[i] = error

LiveStreams(ss) == {a \in 1..Len(ss) : ss[a]}

UnclosedSockets(cs) == {c \in 1..Len(cs) : cs[c].st \in {"CONNECTING", "OPEN"}}

AttemptTimers(ts, k) ==
  {i \in 1..Len(ts) : ts[i].kind = "attempt" /\ ts[i].call = k}

\* the audio_chunk messages sent so far, as (socket, position) pairs
AudioChunks(cs) ==
  {p \in (1..Len(cs)) \X (1..(MaxEvents + 4)) :
     /\ p[2] <= Len(cs[p[1]].traffic)
     /\ cs[p[1]].traffic[p[2]] = "audio_chunk"}

\* C1: on every connection, no audio_chunk is sent before session_started
\* has been received on that connection.
C1_NoAudioBeforeSessionStarted ==
  \A c \in 1..Len(conns) :
    \A i \in 1..Len(conns[c].traffic) :
      conns[c].traffic[i] = "audio_chunk"
        => \E j \in 1..(i - 1) : conns[c].traffic[j] = "<session_started"

\* C2: stopRecording() was called while recording on an open channel and
\* startRecording() has not been called since; once the grace timer and the
\* delayed status change have fired, the service is stopped: 'stopped' was
\* emitted, isRecording is false, every microphone track is stopped, the
\* WebSocket is closed and its handle null.
C2_StopReachesStopped ==
  ( /\ app.call = "stop"
    /\ app.fromRecording
    /\ \A i \in 1..Len(timers) : timers[i].kind \notin {"grace", "status"} )
  => /\ app.stoppedSeen
     /\ ~svc.isRecording
     /\ LiveStreams(streams) = {}
     /\ svc.websocket = 0
     /\ UnclosedSockets(conns) = {}

\* C3: at most one session is active at a time: never more than one
\* acquired-and-unstopped microphone stream, never more than one unclosed
\* WebSocket.
C3_AtMostOneSession ==
  /\ Cardinality(LiveStreams(streams)) <= 1
  /\ Cardinality(UnclosedSockets(conns)) <= 1

\* C4: after stopRecording(), until the next startRecording(), capture stays
\* disabled: isRecording does not become true, 'recording' is not emitted and
\* no audio_chunk is sent.
C4_StopDisablesCapture ==
  [][ (app.call = "stop" /\ app'.call = "stop")
        => /\ ~svc'.isRecording
           /\ ~StatusEmitted(statuses', "recording")
           /\ AudioChunks(conns') = AudioChunks(conns) ]_vars

\* C5: the final-result callback is invoked at most once per utterance.
C5_FinalAtMostOnce == \A u \in Utterances : finalCount[u] <= 1

\* C6: a transcription_result with is_partial = true is delivered to the
\* partial-result callback only: the final-result callback is not invoked and
\* the session's state (the fields of the service, its sockets, streams, audio
\* graphs, timers and retry counters) is unchanged.
PartialDelivered ==
  /\ last.op = "onmessage"
  /\ last.msg.type = "transcription_result"
  /\ last.msg.is_partial

C6_PartialOnlyToPartialCallback ==
  [][ PartialDelivered'
        => /\ partials' = 1
           /\ finals' = <<>>
           /\ finalCount' = finalCount
           /\ statuses' = <<>>
           /\ errors' = <<>>
           /\ svc' = svc
           /\ conns' = conns
           /\ streams' = streams
           /\ graphs' = graphs
           /\ timers' = timers
           /\ retryCount' = retryCount
           /\ gumPending' = gumPending ]_vars

C6_Witness ==
  /\ PartialDelivered
  /\ partials = 1
  /\ svc.isRecording
  /\ svc.websocket = last.id

\* C7: the channel of the service closes abnormally (a close event with code
\* 1006 alone, or an error event and then the close event) while the service
\* is actively recording (isRecording and shouldReconnect, the test of the
\* handlers) and the retry budget is not exhausted.  Then retryCount grows by
\* exactly 1 and exactly one connection attempt is pending, behind the
\* backoff, with no error reported; when that attempt has acquired the
\* microphone the service is recording on a new socket; and when that socket
\* opens the session config is sent on it.
AbnormalCloseOfChannel ==
  /\ last'.op = "onclose"
  /\ last'.code = 1006
  /\ svc.websocket = last'.id
  /\ svc.isRecording

C7_ReconnectsOnce ==
  [][ /\ ( /\ AbnormalCloseOfChannel
           /\ svc.shouldReconnect
           /\ retryCount[conns[last'.id].call] < maxRetries )
         => LET k == conns[last'.id].call
            IN  /\ retryCount'[k] = retryCount[k] + 1
                /\ Cardinality(AttemptTimers(timers', k)) = 1
                /\ \A i \in AttemptTimers(timers', k) : timers'[i].rem = RetryDelay
                /\ gumPending'[k] = 0
                /\ Len(conns') = Len(conns)
                /\ errors' = <<>>
      /\ ( /\ last'.op = "getUserMediaResolved"
           /\ ~last'.err
           /\ retryCount[last'.id] > 0 )
         => /\ Len(conns') = Len(conns) + 1
            /\ svc'.websocket = Len(conns')
            /\ conns'[Len(conns')].call = last'.id
            /\ conns'[Len(conns')].st = "CONNECTING"
            /\ svc'.isRecording
            /\ statuses' = <<"recording">>
      /\ ( /\ last'.op = "onopen"
           /\ svc.websocket = last'.id
           /\ retryCount[conns[last'.id].call] > 0 )
         => conns'[last'.id].traffic = <<"config">> ]_vars

\* the service is recording again on the open socket of a retry, the config
\* sent on it, after the socket of the first attempt closed abnormally
C7_Witness ==
  /\ svc.isRecording
  /\ svc.websocket > 1
  /\ conns[svc.websocket].st = "OPEN"
  /\ conns[svc.websocket].traffic = <<"config">>
  /\ retryCount[conns[svc.websocket].call] = 1
  /\ \E c \in 1..Len(conns) :
       /\ c < svc.websocket
       /\ conns[c].call = conns[svc.websocket].call
       /\ conns[c].st = "CLOSED"

\* C8: the channel of the service fails abnormally while recording with the
\* retry budget exhausted.  Then the error callback is invoked with the
\* connection-failure message, the service is stopped with the microphone
\* released, and no further connection attempt is made.
C8_ExhaustedBudgetReportsAndStops ==
  [][ ( /\ AbnormalCloseOfChannel
        /\ retryCount[conns[last'.id].call] = maxRetries )
        => LET k == conns[last'.id].call
           IN  /\ ErrorReported(errors', "Connection error occurred")
               /\ ~svc'.isRecording
               /\ svc'.audioStream = 0
               /\ AttemptTimers(timers', k) = {}
               /\ gumPending'[k] = 0 ]_vars

\* C9 as claimed: a rejection of getUserMedia() invokes the error callback and
\* schedules no retry.
C9_RejectionIsFatal ==
  [][ last'.op = "getUserMediaRejected"
        => /\ errors' # <<>>
           /\ retryCount' = retryCount
           /\ AttemptTimers(timers', last'.id) = {} ]_vars

\* C9 as amended: a rejection of getUserMedia() is retried, silently and
\* behind the backoff, while the retry budget of the call remains; with the
\* budget exhausted the error callback is invoked with the start-failure
\* message and no attempt of the call remains pending.
C9_RejectionRetriedUntilBudget ==
  [][ last'.op = "getUserMediaRejected"
        => LET k == last'.id
           IN  IF retryCount[k] < maxRetries
               THEN /\ errors' = <<>>
                    /\ retryCount'[k] = retryCount[k] + 1
                    /\ timers' = Append(timers, [kind |-> "attempt", call |-> k,
                                                 rem |-> RetryDelay])
               ELSE /\ errors' = <<"Failed to start recording">>
                    /\ retryCount' = retryCount
                    /\ timers' = timers
                    /\ AttemptTimers(timers', k) = {}
                    /\ gumPending'[k] = 0 ]_vars

\* getUserMedia() was rejected a second time for one call: the error is
\* reported
C9_Witness ==
  /\ last.op = "getUserMediaRejected"
  /\ retryCount[last.id] = maxRetries
  /\ errors = <<"Failed to start recording">>

\* C10: a backend message of type 'error' invokes the error callback with
\* error_message verbatim and stops the session: capture disabled, microphone
\* released, channel closed, no reconnection.
C10_BackendErrorStops ==
  ( /\ last.op = "onmessage"
    /\ last.msg.type = "error" )
  => /\ errors = <<last.msg.error_message>>
     /\ ~svc.isRecording
     /\ ~svc.shouldReconnect
     /\ svc.audioStream = 0
     /\ svc.websocket = 0

\* C11: while only one startRecording() call has been made, the statuses
\* passed to onStatusChange never go back in the order recording, stopping,
\* stopped: 'recording' never follows 'stopping' or 'stopped', and 'stopping'
\* never follows 'stopped'.
StatusRank(status) ==
  CASE status = "none" -> 0
    [] status = "recording" -> 1
    [] status = "stopping" -> 2
    [] status = "stopped" -> 3

Monotonic(sts) ==
  \A i \in 1..(Len(sts) - 1) : StatusRank(sts[i]) <= StatusRank(sts[i + 1])

C11_StatusesMonotonic ==
  [][ Len(retryCount') = 1 => Monotonic(<<app.status>> \o statuses') ]_vars

\* C12: every frame handed to sendPCMAudioChunk has exactly samplesPerChunk
\* samples, and the frames in the order they were emitted, followed by the
\* retained remainder, are the resampled inputs in the order they arrived:
\* no sample dropped, duplicated or reordered.
C12_FramesPartitionInput ==
  dsp.unit = "framer"
    => /\ \A f \in 1..Len(dsp.frames) : Len(dsp.frames[f]) = samplesPerChunk
       /\ combined(dsp.frames) \o combined(dsp.audioBuffer)
            = [i \in 1..dsp.fed |-> i]

\* frames were cut, a remainder is kept, and one callback cut no frame
C12_Witness ==
  /\ dsp.unit = "framer"
  /\ Len(dsp.frames) >= 2
  /\ Len(dsp.frames) < dsp.calls
  /\ dsp.audioBuffer # <<>>

\* C13: after every call of the framer, with N samples accumulated so far
\* and F = samplesPerChunk, the frames cover the input up to the last full
\* frame boundary and the remainder holds exactly N mod F samples.
C13_RemainderIsNModF ==
  dsp.unit = "framer"
    => /\ Len(combined(dsp.audioBuffer)) = dsp.fed % samplesPerChunk
       /\ Len(dsp.frames) * samplesPerChunk
            = dsp.fed - (dsp.fed % samplesPerChunk)

\* the audio_chunk messages of call c, as positions of the channel
MessagesOf(c) == {p \in 1..Len(dsp.sent) : dsp.sent[p].frame = c}

\* C14: every audio_chunk message carries at most MAX_CHUNK_SIZE bytes of PCM
\* data, for the frame of the framer and for every other buffer.
C14_PayloadWithinLimit ==
  dsp.unit = "sender"
    => \A p \in 1..Len(dsp.sent) :
         dsp.sent[p].end - dsp.sent[p].start <= MAX_CHUNK_SIZE

\* an oversized buffer was sent whole, in a full sub-chunk and a shorter one
C14_Witness ==
  /\ dsp.unit = "sender"
  /\ \E c \in 1..Len(dsp.calls) :
       /\ dsp.calls[c].pc = "done"
       /\ dsp.calls[c].length > MAX_CHUNK_SIZE
       /\ \E p, q \in MessagesOf(c) :
            /\ dsp.sent[p].end - dsp.sent[p].start = MAX_CHUNK_SIZE
            /\ dsp.sent[q].end - dsp.sent[q].start < MAX_CHUNK_SIZE
            /\ dsp.sent[q].end = dsp.calls[c].length

\* C15: a call with S > MAX_CHUNK_SIZE bytes that has returned, the socket
\* open throughout, has sent exactly ceil(S / MAX_CHUNK_SIZE) messages, and
\* these, in the order of the channel, are consecutive slices of the buffer
\* from byte 0 to byte S.
C15_SplitReconstructs ==
  dsp.unit = "sender"
    => \A c \in 1..Len(dsp.calls) :
         ( /\ dsp.calls[c].length > MAX_CHUNK_SIZE
           /\ dsp.calls[c].pc = "done"
           /\ dsp.socket = "OPEN" )
         => LET S == dsp.calls[c].length
                M == MessagesOf(c)
                k == Cardinality(M)
            IN  /\ (k - 1) * MAX_CHUNK_SIZE < S
                /\ S <= k * MAX_CHUNK_SIZE
                /\ \A p \in M :
                     LET before == Cardinality({q \in M : q < p})
                     IN  /\ dsp.sent[p].start = before * MAX_CHUNK_SIZE
                         /\ dsp.sent[p].end =
                              IF before = k - 1 THEN S
                              ELSE (before + 1) * MAX_CHUNK_SIZE

\* a buffer of more than two limits was split into three messages
C15_Witness ==
  /\ dsp.unit = "sender"
  /\ dsp.socket = "OPEN"
  /\ \E c \in 1..Len(dsp.calls) :
       /\ dsp.calls[c].pc = "done"
       /\ dsp.calls[c].length > 2 * MAX_CHUNK_SIZE
       /\ Cardinality(MessagesOf(c)) = 3

C17_ResampledLengthAndReads ==
  (dsp.unit = "resampler" /\ dsp.done)
    => LET N == dsp.n
           R == dsp.rate
           L == Len(dsp.output)
       IN  /\ R * (2 * L - 3) <= 2 * N * SAMPLE_RATE
           /\ 2 * N * SAMPLE_RATE <= R * (2 * L + 3)
           /\ \A j \in 1..L :
                /\ dsp.output[j].lower \in 0..(N - 1)
                /\ dsp.output[j].upper \in 0..(N - 1)
           /\ R = SAMPLE_RATE
                => /\ dsp.same
                   /\ L = N
                   /\ \A j \in 1..L :
                        /\ dsp.output[j].lower = j - 1
                        /\ dsp.output[j].num = 0

\* a resampling that interpolated one output sample and took another from
\* the last input sample alone
C17_Witness ==
  /\ dsp.unit = "resampler"
  /\ dsp.done
  /\ dsp.rate # SAMPLE_RATE
  /\ \E j \in 1..Len(dsp.output) : dsp.output[j].num > 0
  /\ \E j \in 1..Len(dsp.output) :
       /\ dsp.output[j].lower = dsp.n - 1
       /\ dsp.output[j].upper = dsp.n - 1
       /\ (j - 1) * dsp.rate > (dsp.n - 1) * SAMPLE_RATE

\* C18: in the run of one whole session, once the script has ended
\* (session_ended was delivered) and every timer has fired, the service is
\* stopped ('stopped' was emitted after the stop, isRecording is false), the
\* microphone and the channel are released, and the final-result callback
\* has fired exactly once, for the utterance of the final result.  Before
\* that it has never fired more than once.
C18_SessionRunsToStopped ==
  dsp.unit = "scenario"
    => /\ finalCount[1] <= 1
       /\ (dsp.step = "ended" /\ timers = <<>>)
            => /\ app.stoppedSeen
               /\ app.status = "stopped"
               /\ ~svc.isRecording
               /\ svc.audioStream = 0
               /\ LiveStreams(streams) = {}
               /\ svc.websocket = 0
               /\ UnclosedSockets(conns) = {}
               /\ finalCount[1] = 1

\* the script has run to its end, with its ten chunks sent after the
\* acknowledgement, and the close has completed
C18_Witness ==
  /\ dsp.unit = "scenario"
  /\ dsp.step = "ended"
  /\ timers = <<>>
  /\ Len(conns) = 1
  /\ conns[1].st = "CLOSED"
  /\ ChunksSent(1) = ScenarioChunks
  /\ finalCount[1] = 1
  /\ app.status = "stopped"

\* C19: startRecording() was called while the previous session was tearing
\* down (grace timer pending, or close in progress).  From then on the
\* resources of two sessions never coexist: at most one microphone stream is
\* live and at most one socket is connecting or open.
C19_NoCoexistenceAfterTeardownStart ==
  (app.call = "start" /\ app.tearingDown)
    => /\ Cardinality(LiveStreams(streams)) <= 1
       /\ Cardinality(UnclosedSockets(conns)) <= 1

\* C20: for every startRecording() call, retryCount never exceeds maxRetries
\* and at most maxRetries + 1 connection attempts are started.
C20_RetryBudgetRespected ==
  \A k \in 1..Len(retryCount) :
    /\ retryCount[k] <= maxRetries
    /\ attempts[k] <= maxRetries + 1

\* the socket of a retry fails when the budget of its call is used: the call
\* has made maxRetries + 1 attempts and no further one is pending
C20_Witness ==
  /\ last.op = "onclose"
  /\ last.code = 1006
  /\ LET k == conns[last.id].call
     IN  /\ \E c \in 1..(last.id - 1) : conns[c].call = k
         /\ retryCount[k] = maxRetries
         /\ attempts[k] = maxRetries + 1
         /\ gumPending[k] = 0
         /\ AttemptTimers(timers, k) = {}

\* C21: whenever 'stopped' is emitted the service holds neither the
\* microphone nor the audio graph nor the channel: the handles are null, the
\* tracks of the stream it held are stopped and its socket is no longer open.
C21_StoppedOnlyWhenReleased ==
  [][ StatusEmitted(statuses', "stopped")
        => /\ svc'.audioStream = 0
           /\ svc'.audioContext = 0
           /\ svc'.processor = 0
           /\ svc'.websocket = 0
           /\ svc.audioStream # 0 => ~streams'[svc.audioStream]
           /\ svc.websocket # 0 => conns'[svc.websocket].st # "OPEN" ]_vars

\* what the client sent on socket c, in order
ClientSent(c) ==
  LET RECURSIVE pick(_)
      pick(t) == IF t = <<>> THEN <<>>
                 ELSE IF Head(t) = "<session_started" THEN pick(Tail(t))
                 ELSE <<Head(t)>> \o pick(Tail(t))
  IN  pick(conns[c].traffic)

\* C22: on every connection that was opened the session config is the first
\* message the client sent, and it was sent exactly once.
C22_ConfigFirstAndOnce ==
  \A c \in 1..Len(conns) :
    conns[c].est
      => /\ ClientSent(c) # <<>>
         /\ Head(ClientSent(c)) = "config"
         /\ Count(ClientSent(c), "config") = 1

\* C23: 'recording' is emitted, and isRecording set, only when the channel of
\* the service is open with the session config sent and session_started
\* received on it.
C23_RecordingOnlyOnceAccepted ==
  [][ (StatusEmitted(statuses', "recording") \/ (svc'.isRecording /\ ~svc.isRecording))
        => /\ svc'.websocket # 0
           /\ conns'[svc'.websocket].st = "OPEN"
           /\ Count(conns'[svc'.websocket].traffic, "config") > 0
           /\ Count(conns'[svc'.websocket].traffic, "<session_started") > 0 ]_vars

\* C24: once the session has ended and nothing is pending (no timer, no
\* getUserMedia promise, the service idle with all handles null), every
\* microphone stream is stopped, every audio graph disconnected and closed
\* and no socket is connecting or open.
Quiescent ==
  /\ Len(retryCount) > 0
  /\ timers = <<>>
  /\ \A k \in 1..Len(gumPending) : gumPending[k] = 0
  /\ ~svc.isRecording
  /\ svc.audioStream = 0
  /\ svc.audioContext = 0
  /\ svc.processor = 0
  /\ svc.websocket = 0

C24_EverythingReleased ==
  Quiescent
    => /\ LiveStreams(streams) = {}
       /\ \A g \in 1..Len(graphs) : ~graphs[g].connected /\ ~graphs[g].open
       /\ UnclosedSockets(conns) = {}

\* the number of connection attempts scheduled and not yet started
PendingAttempts(ts) ==
  Cardinality({i \in 1..Len(ts) : ts[i].kind = "attempt"})

\* C25: a close event with code 1000 schedules no connection attempt and
\* leaves retryCount unchanged; a close or error event schedules an attempt
\* or counts a retry only if its code is not 1000 and, when the event
\* arrived, shouldReconnect and isRecording were true and the budget of the
\* call of that socket was not used up.
C25_NormalCloseNeverReconnects ==
  [][ last'.op = "onclose"
        => /\ last'.code = 1000
                => /\ retryCount' = retryCount
                   /\ attempts' = attempts
                   /\ PendingAttempts(timers') <= PendingAttempts(timers)
           /\ (retryCount' # retryCount
                 \/ PendingAttempts(timers') > PendingAttempts(timers))
                => /\ last'.code # 1000
                   /\ svc.shouldReconnect
                   /\ svc.isRecording
                   /\ retryCount[conns[last'.id].call] < maxRetries ]_vars

\* The channel was closed with code 1000 while the service was recording
\* with reconnection enabled and the budget untouched, and no attempt
\* followed.
C25_Witness ==
  /\ last.op = "onclose"
  /\ last.code = 1000
  /\ Len(retryCount) = 1
  /\ retryCount[1] = 0
  /\ app.call = "start"
  /\ app.status = "recording"
  /\ conns[last.id].est
  /\ PendingAttempts(timers) = 0
  /\ ~svc.shouldReconnect

\* C26: the connection error is reported through the error callback only
\* when the retry budget of the call of the failing socket is used up.
C26_ErrorOnlyWhenBudgetExhausted ==
  [][ (last'.op = "onclose" /\ ErrorReported(errors', "Connection error occurred"))
        => retryCount[conns[last'.id].call] >= maxRetries ]_vars

\* C27: a close or error event of a socket that is no longer the socket of
\* the service, a newer one having been created, leaves the fields of the
\* service, the microphone streams, the audio graphs and the newer socket as
\* they were.
C27_StaleEventsLeaveNewerSessionAlone ==
  [][ (/\ last'.op = "onclose"
       /\ svc.websocket # 0
       /\ svc.websocket > last'.id)
        => /\ svc' = svc
           /\ streams' = streams
           /\ graphs' = graphs
           /\ conns'[svc.websocket] = conns[svc.websocket] ]_vars

\* C28: the client sends end_session at most once on one connection.
C28_EndSessionAtMostOnce ==
  \A c \in 1..Len(conns) : Count(conns[c].traffic, "end_session") <= 1

\* C29: while isRecording is true the microphone stream, the audio context,
\* the processor and the WebSocket handle are all set.
C29_RecordingHoldsResources ==
  svc.isRecording
    => /\ svc.audioStream # 0
       /\ svc.audioContext # 0
       /\ svc.processor # 0
       /\ svc.websocket # 0

\* Capture is active on a microphone, a graph and a socket, and an attempt
\* whose AudioContext could not be created has been through it.
C29_Witness ==
  /\ svc.isRecording
  /\ svc.audioStream # 0
  /\ ErrorReported(errors, "Failed to set up audio processing")

\* C30: with a single startRecording() call, 'stopped' is emitted at most
\* once: a handler emits it at most once, and once it was emitted no handler
\* other than that of a backend message emits it again (a backend that
\* repeats session_ended is left out).
C30_StoppedExactlyOnce ==
  [][ Len(retryCount') = 1
        => /\ Count(statuses', "stopped") <= 1
           /\ (app.stoppedSeen /\ last'.op \notin {"startRecording", "onmessage"})
                => ~StatusEmitted(statuses', "stopped") ]_vars

====
